---- MODULE Spec2Model ----
(***************************************************************************)
(* Model of the PR review memory agent (scripts/post_review.py,            *)
(* scripts/generate_review.py, scripts/claude_embeddings.py).              *)
(*                                                                         *)
(* Text is modelled at character level: a string is a sequence of          *)
(* one-character strings, a patch (after patch.split('\n')) a sequence of  *)
(* lines.  Python's None is the value None below.                          *)
(***************************************************************************)
EXTENDS Integers, Sequences, FiniteSets, TLC

VARIABLES
    pc,               \* position of the modelled run
    patch,            \* lines of target_file.patch / the patch argument
    target_line,      \* the target_line argument of the resolver
    diff_position,    \* value returned by calculate_diff_position
    position_in_diff, \* value returned by get_position_in_diff
    pr,               \* the pull request: its files and their patches
    review_comments,  \* review_data['comments'] of generated_review.json
    review_file,      \* whether generated_review.json exists
    cidx,             \* index of the comment the posting loop is at
    comments_posted,  \* counter of post_review_comments
    errors,           \* counter of post_review_comments
    api_log,          \* calls made to the hosting API, in order
    post_result,      \* value returned by post_review_comments
    max_lines,        \* the max_lines argument of split_patch_into_chunks
    chunks,           \* value returned by split_patch_into_chunks
    chunk_lines,      \* extract_line_number_from_chunk of each chunk
    chunk_positions,  \* calculate_diff_position of each chunk's line number
    query_embedding,  \* the query_embedding argument of find_similar_reviews
    review_embeddings,\* the review_embeddings argument: the stored records
    top_k,            \* the top_k argument
    min_similarity,   \* the min_similarity argument
    found_reviews,    \* value returned by find_similar_reviews
    stored_before,    \* the stored records as they were before the first search
    search_history,   \* the searches made over the stored records, in order
    embed_log,        \* the calls made to generate_embedding, with their results
    embed_requests,   \* who asked for a review embedding, of what, with which text
    memory,           \* the FAISSMemoryManager: its vector index and its records
    code_chunks,      \* the code_chunks argument of find_similar_past_reviews
    find_threshold,   \* the local min_similarity of find_similar_past_reviews
    fidx,             \* index of the chunk the loop of find_similar_past_reviews is at
    search_log,       \* the calls made to memory_manager.search_similar
    review_suggestions, \* value returned by find_similar_past_reviews
    disk,             \* memory_data/ on the memory branch: the two files
    branch,           \* the branch the working tree is on
    changed_files,    \* pr.get_files() as get_pr_changes sees it
    rules_file,       \* whether scripts/review_rules.txt exists
    generated_review  \* generated_review.json as main wrote it

resolverVars == <<patch, target_line, diff_position, position_in_diff>>
postVars == <<pr, review_comments, review_file, cidx, comments_posted, errors,
              api_log, post_result>>
chunkVars == <<max_lines, chunks, chunk_lines, chunk_positions>>
searchVars == <<query_embedding, review_embeddings, top_k, min_similarity,
                found_reviews, stored_before, search_history>>
embedVars == <<embed_log, embed_requests>>
findVars == <<memory, code_chunks, find_threshold, fidx, search_log,
              review_suggestions>>
mainVars == <<disk, branch, changed_files, rules_file, generated_review>>
vars == <<pc, resolverVars, postVars, chunkVars, searchVars, embedVars, findVars,
          mainVars>>

\* what the actions of one part leave alone: the state of the other parts
exceptResolver == <<postVars, chunkVars, searchVars, embedVars, findVars, mainVars>>
exceptPost == <<resolverVars, chunkVars, searchVars, embedVars, findVars, mainVars>>
exceptChunk == <<postVars, searchVars, embedVars, findVars, mainVars>>
exceptSearch == <<resolverVars, postVars, chunkVars, embedVars, findVars, mainVars>>
exceptEmbed == <<resolverVars, postVars, chunkVars, searchVars, findVars, mainVars>>
exceptFind == <<resolverVars, postVars, chunkVars, searchVars, embedVars, mainVars>>
exceptMain == <<resolverVars, postVars, chunkVars, searchVars, embedVars>>

-----------------------------------------------------------------------------
(* Bounds of the model *)

\* longest hunk body of a generated well-formed patch
MaxBody == 2
\* largest target line number handed to the resolver
MaxTarget == 14
\* most comments in generated_review.json
MaxComments == 2
\* longest run of context lines inside a hunk handed to the chunker
MaxCtxRun == 6
\* largest max_lines handed to the chunker
MaxMaxLines == 6
\* most stored records handed to find_similar_reviews (and largest top_k)
MaxRecords == 3
\* most calls made to the embedding client in one run
MaxEmbedCalls == 2
\* most records in the memory store
MaxMemory == 11
\* most searches made one after the other over one list of stored records
MaxSearches == 2

-----------------------------------------------------------------------------
(* Strings *)

\* Python's None; every position and line number the code returns is >= 0
None == -1

Digit == <<"0", "1", "2", "3", "4", "5", "6", "7", "8", "9">>

IsDigit(c) == \E d \in 1..10 : Digit[d] = c

DigitVal(c) == (CHOOSE d \in 1..10 : Digit[d] = c) - 1

\* str(n) for n >= 0
RECURSIVE Str(_)
Str(n) == IF n < 10 THEN <<Digit[n + 1]>> ELSE Str(n \div 10) \o <<Digit[(n % 10) + 1]>>

\* line.startswith(prefix)
StartsWith(line, prefix) ==
    /\ Len(line) >= Len(prefix)
    /\ SubSeq(line, 1, Len(prefix)) = prefix

\* int() of the decimal digits line[i..j]
RECURSIVE DigitsValue(_, _, _)
DigitsValue(line, i, j) ==
    IF j < i THEN 0
    ELSE 10 * DigitsValue(line, i, j - 1) + DigitVal(line[j])

\* end of the maximal run of digits that starts at i
RECURSIVE DigitRunEnd(_, _)
DigitRunEnd(line, i) ==
    IF i + 1 <= Len(line) /\ IsDigit(line[i + 1]) THEN DigitRunEnd(line, i + 1) ELSE i

\* re.search(r'\+(\d+)', line): int(match.group(1)), or None when nothing matches
RePlusDigits(line) ==
    LET hits == {i \in 1..(Len(line) - 1) : line[i] = "+" /\ IsDigit(line[i + 1])}
    IN  IF hits = {} THEN None
        ELSE LET i == CHOOSE h \in hits : \A g \in hits : h <= g
             IN  DigitsValue(line, i + 1, DigitRunEnd(line, i + 1))

-----------------------------------------------------------------------------
(* Patches *)

HunkMarker == <<"@", "@">>
CtxLine == <<" ", "a">>
AddLine == <<"+", "b">>
DelLine == <<"-", "c">>
\* "\ No newline at end of file"
NoNewlineLine == <<"\\", " ", "N">>
EmptyLine == <<>>

\* trailing context text git may print after the closing marker
CtxTail == <<" ", "f", "+", "7">>

BodyLines == {CtxLine, AddLine, DelLine}

Bodies == UNION {[1..n -> BodyLines] : n \in 1..MaxBody}

CountOf(body, kinds) == Cardinality({i \in 1..Len(body) : body[i] \in kinds})

\* "@@ -oldStart,oldLen +newStart,newLen @@" and the optional trailing text
FormatHeader(oldStart, oldLen, newStart, newLen, tail) ==
    HunkMarker \o <<" ", "-">> \o Str(oldStart) \o <<",">> \o Str(oldLen)
        \o <<" ", "+">> \o Str(newStart) \o <<",">> \o Str(newLen)
        \o <<" ">> \o HunkMarker \o tail

\* one hunk whose header counts agree with its body
Hunk(oldStart, newStart, body, tail) ==
    <<FormatHeader(oldStart, CountOf(body, {CtxLine, DelLine}),
                   newStart, CountOf(body, {CtxLine, AddLine}), tail)>> \o body

Starts == {1, 9}
Gaps == {0, 3}

OneHunkPatches ==
    {Hunk(s, s, b, t) : s \in Starts, b \in Bodies, t \in {<<>>, CtxTail}}

\* two hunks in file order, the second starting after the first's range
TwoHunkPatches ==
    {Hunk(s, s, b1, <<>>)
        \o Hunk(s + CountOf(b1, {CtxLine, DelLine}) + g,
                s + CountOf(b1, {CtxLine, AddLine}) + g, b2, CtxTail) :
        s \in Starts, b1 \in Bodies, b2 \in Bodies, g \in Gaps}

WellFormedPatches == OneHunkPatches \cup TwoHunkPatches

\* patches outside the well-formed shape: empty text, text before the first
\* header, a trailing empty line, the no-newline marker, unparsable headers
OddPatches ==
    { <<EmptyLine>>,
      <<CtxLine, AddLine>>,
      <<AddLine>> \o Hunk(1, 1, <<CtxLine, AddLine>>, <<>>),
      Hunk(1, 1, <<CtxLine, AddLine>>, <<>>) \o <<EmptyLine>>,
      Hunk(1, 1, <<DelLine, AddLine>>, <<>>) \o <<NoNewlineLine>>,
      <<HunkMarker, CtxLine, AddLine>>,
      <<HunkMarker \o <<" ", "x">>, AddLine>> \o Hunk(5, 5, <<CtxLine, AddLine>>, <<>>),
      Hunk(3, 3, <<AddLine, AddLine>>, <<>>) \o Hunk(3, 3, <<CtxLine, AddLine>>, <<>>) }

\* the patch "@@ -1,3 +1,4 @@", " a", "+b", " c", " d"
ExamplePatch ==
    <<FormatHeader(1, 3, 1, 4, <<>>), <<" ", "a">>, <<"+", "b">>, <<" ", "c">>,
      <<" ", "d">>>>

PatchInputs == WellFormedPatches \cup OddPatches \cup {ExamplePatch}

-----------------------------------------------------------------------------
(* post_review.py: calculate_diff_position *)

\* the loop state before the first line: position = 0, current_line = 0
CalcStart == [position |-> 0, current_line |-> 0, found |-> None]

\* CalcStep with a slip: a context line whose number is the target matches too
CalcStepContextMatches(st, line, target) ==
    IF StartsWith(line, HunkMarker)
    THEN LET m == RePlusDigits(line)
         IN  IF m # None THEN [st EXCEPT !.current_line = m - 1] ELSE st
    ELSE LET pos == st.position + 1
         IN  IF StartsWith(line, <<"+">>) \/ StartsWith(line, <<" ">>)
             THEN IF st.current_line + 1 = target
                  THEN [position |-> pos, current_line |-> st.current_line + 1,
                        found |-> pos]
                  ELSE [st EXCEPT !.position = pos,
                                  !.current_line = st.current_line + 1]
             ELSE [st EXCEPT !.position = pos]

\* CalcStep with a slip: a hunk header advances position like any other line
CalcStepCountsHeader(st, line, target) ==
    IF StartsWith(line, HunkMarker)
    THEN LET m == RePlusDigits(line)
         IN  IF m # None
             THEN [st EXCEPT !.current_line = m - 1, !.position = st.position + 1]
             ELSE [st EXCEPT !.position = st.position + 1]
    ELSE LET pos == st.position + 1
         IN  IF StartsWith(line, <<"+">>)
             THEN IF st.current_line + 1 = target
                  THEN [position |-> pos, current_line |-> st.current_line + 1,
                        found |-> pos]
                  ELSE [st EXCEPT !.position = pos,
                                  !.current_line = st.current_line + 1]
             ELSE IF StartsWith(line, <<" ">>)
                  THEN [st EXCEPT !.position = pos,
                                  !.current_line = st.current_line + 1]
                  ELSE [st EXCEPT !.position = pos]

\* one iteration of "for line in patch_lines" (lines 84-105)
CalcStep(st, line, target) ==
    IF StartsWith(line, HunkMarker)
    THEN LET m == RePlusDigits(line)
         IN  IF m # None THEN [st EXCEPT !.current_line = m - 1] ELSE st
    ELSE LET pos == st.position + 1
         IN  IF StartsWith(line, <<"+">>)
             THEN IF st.current_line + 1 = target
                  THEN [position |-> pos, current_line |-> st.current_line + 1,
                        found |-> pos]
                  ELSE [st EXCEPT !.position = pos,
                                  !.current_line = st.current_line + 1]
             ELSE IF StartsWith(line, <<" ">>)
                  THEN [st EXCEPT !.position = pos,
                                  !.current_line = st.current_line + 1]
                  ELSE [st EXCEPT !.position = pos]

\* the loop over patch_lines; the return inside the loop ends it
RECURSIVE CalcScan(_, _, _, _)
CalcScan(lines, i, st, target) ==
    IF st.found # None THEN st.found
    ELSE IF i > Len(lines) THEN None
    ELSE CalcScan(lines, i + 1, CalcStep(st, lines[i], target), target)

\* "not target_file.patch": the patch is None (no lines) or the empty string
PatchFalsy(p) == p = <<>> \/ p = <<EmptyLine>>

\* first file of pr.get_files() named file_path, or 0
FindFile(files, file_path) ==
    LET hits == {k \in 1..Len(files) : files[k].filename = file_path}
    IN  IF hits = {} THEN 0 ELSE CHOOSE k \in hits : \A j \in hits : k <= j

\* calculate_diff_position(pr, file_path, target_line); an exception of
\* pr.get_files() is caught and becomes None
calculate_diff_position(pull, file_path, target) ==
    IF pull.get_files_raises THEN None
    ELSE LET k == FindFile(pull.files, file_path)
         IN  IF k = 0 THEN None
             ELSE IF PatchFalsy(pull.files[k].patch) THEN None
             ELSE CalcScan(pull.files[k].patch, 1, CalcStart, target)

-----------------------------------------------------------------------------
(* post_review.py: get_position_in_diff *)

\* line.split(): the maximal runs of characters other than blanks
RECURSIVE Tokens(_)
Tokens(line) ==
    IF line = <<>> THEN <<>>
    ELSE IF line[1] = " " THEN Tokens(Tail(line))
    ELSE LET blanks == {i \in 1..Len(line) : line[i] = " "}
             e == IF blanks = {} THEN Len(line) + 1
                  ELSE CHOOSE i \in blanks : \A j \in blanks : i <= j
         IN  <<SubSeq(line, 1, e - 1)>> \o Tokens(SubSeq(line, e, Len(line)))

\* text.split(',')[0]
BeforeComma(text) ==
    LET commas == {i \in 1..Len(text) : text[i] = ","}
    IN  IF commas = {} THEN text
        ELSE SubSeq(text, 1, (CHOOSE i \in commas : \A j \in commas : i <= j) - 1)

IsNotPlus(c) == c # "+"

\* text.replace('+', '')
RemovePlus(text) == SelectSeq(text, IsNotPlus)

AllDigits(text) == text # <<>> /\ \A i \in 1..Len(text) : IsDigit(text[i])

\* int(text) of a text without blanks, '+' or '_': digits with an optional
\* leading '-'; anything else raises ValueError
PyInt(text) ==
    IF AllDigits(text) THEN [ok |-> TRUE, value |-> DigitsValue(text, 1, Len(text))]
    ELSE IF text # <<>> /\ text[1] = "-" /\ AllDigits(Tail(text))
    THEN [ok |-> TRUE, value |-> 0 - DigitsValue(text, 2, Len(text))]
    ELSE [ok |-> FALSE, value |-> 0]

\* lines 26-28: parts = line.split(); new_range = parts[1];
\* int(new_range.split(',')[0].replace('+', '')); IndexError and ValueError
\* alike end in the bare except
HeaderStart(line) ==
    LET parts == Tokens(line)
    IN  IF Len(parts) < 2 THEN [ok |-> FALSE, value |-> 0]
        ELSE PyInt(RemovePlus(BeforeComma(parts[2])))

\* the loop state before the first line: position = 0, current_new_line = 0
GetStart == [position |-> 0, current_new_line |-> 0, found |-> None]

\* one iteration of "for line in lines" (lines 22-46)
GetStep(st, line, target) ==
    IF StartsWith(line, HunkMarker)
    THEN LET h == HeaderStart(line)
         IN  IF h.ok
             THEN [st EXCEPT !.current_new_line = h.value,
                             !.position = st.position + 1]
             ELSE st
    ELSE LET pos == st.position + 1
         IN  IF StartsWith(line, <<"+">>)
             THEN IF st.current_new_line = target
                  THEN [st EXCEPT !.position = pos, !.found = pos]
                  ELSE [st EXCEPT !.position = pos,
                                  !.current_new_line = st.current_new_line + 1]
             ELSE IF StartsWith(line, <<"-">>)
                  THEN [st EXCEPT !.position = pos]
                  ELSE IF StartsWith(line, <<" ">>)
                       THEN [st EXCEPT !.position = pos,
                                       !.current_new_line = st.current_new_line + 1]
                       ELSE [st EXCEPT !.position = pos]

RECURSIVE GetScan(_, _, _, _)
GetScan(lines, i, st, target) ==
    IF st.found # None THEN st.found
    ELSE IF i > Len(lines) THEN None
    ELSE GetScan(lines, i + 1, GetStep(st, lines[i], target), target)

\* get_position_in_diff(patch, target_line) on the lines of the patch
get_position_in_diff(p, target) ==
    IF PatchFalsy(p) THEN None ELSE GetScan(p, 1, GetStart, target)

-----------------------------------------------------------------------------
(* Specification of the resolver: the inputs are drawn in Init *)

\* a pull request whose only changed file carries the patch
SinglePr(p) == [get_files_raises |-> FALSE,
                files |-> <<[filename |-> "f", patch |-> p]>>]

ResolverIdle ==
    /\ patch = <<>>
    /\ target_line = 0
    /\ diff_position = None
    /\ position_in_diff = None

PostIdle ==
    /\ pr = [get_files_raises |-> FALSE, files |-> <<>>]
    /\ review_comments = <<>>
    /\ review_file = FALSE
    /\ cidx = 0
    /\ comments_posted = 0
    /\ errors = 0
    /\ api_log = <<>>
    /\ post_result = FALSE

ChunkIdle ==
    /\ max_lines = 0
    /\ chunks = <<>>
    /\ chunk_lines = <<>>
    /\ chunk_positions = <<>>

EmbedIdle == embed_log = <<>> /\ embed_requests = <<>>

\* generated_review.json does not exist
NoReview == [written |-> FALSE, comments |-> <<>>,
             metadata |-> [total_chunks_analyzed |-> 0,
                           chunks_with_similar_reviews |-> 0,
                           comments_generated |-> 0, memory_size |-> 0]]

MainIdle ==
    /\ disk = [index_exists |-> FALSE, metadata_exists |-> FALSE,
               index_size |-> 0, metadata_size |-> 0]
    /\ branch = "pr"
    /\ changed_files = <<>>
    /\ rules_file = FALSE
    /\ generated_review = NoReview

FindIdle ==
    /\ memory = [index |-> <<>>, records |-> <<>>]
    /\ code_chunks = <<>>
    /\ find_threshold = [dot |-> 0, nsq |-> 1]
    /\ fidx = 0
    /\ search_log = <<>>
    /\ review_suggestions = <<>>

SearchIdle ==
    /\ query_embedding = <<>>
    /\ review_embeddings = <<>>
    /\ top_k = 0
    /\ min_similarity = [dot |-> 0, nsq |-> 1]
    /\ found_reviews = <<>>
    /\ stored_before = <<>>
    /\ search_history = <<>>

InitResolve ==
    /\ pc = "resolve"
    /\ patch \in PatchInputs
    /\ target_line \in 0..MaxTarget
    /\ diff_position = None
    /\ position_in_diff = None
    /\ PostIdle /\ ChunkIdle /\ SearchIdle /\ EmbedIdle /\ FindIdle
    /\ MainIdle

Resolve ==
    /\ pc = "resolve"
    /\ diff_position' = calculate_diff_position(SinglePr(patch), "f", target_line)
    /\ pc' = "resolved"
    /\ UNCHANGED <<patch, target_line, position_in_diff, exceptResolver>>

\* get_position_in_diff on the same patch and target
GetPosition ==
    /\ pc = "resolved"
    /\ position_in_diff' = get_position_in_diff(patch, target_line)
    /\ pc' = "positioned"
    /\ UNCHANGED <<patch, target_line, diff_position, exceptResolver>>

NextResolve == Resolve \/ GetPosition

SpecResolve == InitResolve /\ [][NextResolve]_vars

-----------------------------------------------------------------------------
(* What the claims about the resolver speak of *)

IsHeader(line) == StartsWith(line, HunkMarker)
IsAddition(line) == ~IsHeader(line) /\ StartsWith(line, <<"+">>)
IsContext(line) == StartsWith(line, <<" ">>)
IsDeletion(line) == StartsWith(line, <<"-">>)

\* index of the hunk header that governs line i of p, or 0
HeaderOf(p, i) ==
    LET hs == {h \in 1..(i - 1) : IsHeader(p[h])}
    IN  IF hs = {} THEN 0 ELSE CHOOSE h \in hs : \A g \in hs : g <= h

\* output-side line number of line i of p (an addition or context line of a
\* hunk whose header states its start), or None
OutputLine(p, i) ==
    LET h == HeaderOf(p, i)
    IN  IF h = 0 \/ ~(IsAddition(p[i]) \/ IsContext(p[i])) THEN None
        ELSE IF RePlusDigits(p[h]) = None THEN None
        ELSE RePlusDigits(p[h])
                + Cardinality({j \in (h + 1)..(i - 1) :
                                  IsAddition(p[j]) \/ IsContext(p[j])})

\* indexes of the addition lines of p whose output-side number is n
AdditionsAt(p, n) ==
    {i \in 1..Len(p) : IsAddition(p[i]) /\ OutputLine(p, i) = n}

\* index in p of the k-th line that is no hunk header, or 0
BodyLineIndex(p, k) ==
    LET hits == {i \in 1..Len(p) :
                    /\ ~IsHeader(p[i])
                    /\ Cardinality({j \in 1..i : ~IsHeader(p[j])}) = k}
    IN  IF hits = {} THEN 0 ELSE CHOOSE i \in hits : TRUE

\* C1: for a target that is the output-side number of an addition line, the
\* resolver returns that line's 1-based index over every line of the patch,
\* hunk headers counted (the first header is position 1).
C1_PositionCountsEveryLine ==
    pc = "resolved" =>
        \A i \in AdditionsAt(patch, target_line) :
            (\A j \in AdditionsAt(patch, target_line) : i <= j)
                => diff_position = i

\* C3: on a patch of well-formed hunks the resolver returns None unless the
\* target is the output-side number of an addition line; a position it
\* returns is, in its own count of the lines below the headers, that of a
\* line starting with '+' whose number is the target.
C3_NoneUnlessAddition ==
    (pc = "resolved" /\ patch \in WellFormedPatches) =>
        /\ AdditionsAt(patch, target_line) = {} => diff_position = None
        /\ diff_position # None =>
               /\ BodyLineIndex(patch, diff_position) # 0
               /\ IsAddition(patch[BodyLineIndex(patch, diff_position)])
               /\ BodyLineIndex(patch, diff_position)
                      \in AdditionsAt(patch, target_line)

\* C3 witness: the target is the number of a context line of a well-formed
\* patch that also deletes a line, and the resolver has answered None
C3_Witness ==
    /\ pc = "resolved"
    /\ patch \in WellFormedPatches
    /\ \E i \in 1..Len(patch) : IsDeletion(patch[i])
    /\ \E i \in 1..Len(patch) :
          IsContext(patch[i]) /\ OutputLine(patch, i) = target_line
    /\ diff_position = None

\* C12: on the patch "@@ -1,3 +1,4 @@", " a", "+b", " c", " d" the resolver
\* calculate_diff_position answers 2 for target line 2.
C12_ExamplePatchPosition ==
    (pc # "resolve" /\ patch = ExamplePatch /\ target_line = 2)
        => diff_position = 2

\* C12 witness: the example patch was resolved for target 2, to the line "+b"
C12_Witness ==
    /\ pc = "resolved"
    /\ patch = ExamplePatch
    /\ target_line = 2
    /\ diff_position = 2
    /\ patch[BodyLineIndex(patch, diff_position)] = <<"+", "b">>

\* a header whose output-side start cannot be parsed
IsMalformedHeader(line) == IsHeader(line) /\ RePlusDigits(line) = None

\* the numbers that designate line i of p as a position: its index over
\* every line, over the lines that are no malformed header, and over the
\* lines that are no header at all
PositionReadings(p, i) ==
    { i,
      Cardinality({j \in 1..i : ~IsMalformedHeader(p[j])}),
      Cardinality({j \in 1..i : ~IsHeader(p[j])}) }

\* the first addition line of p numbered n that stands in a well-formed hunk
\* after a malformed header, or 0
TargetAfterMalformed(p, n) ==
    LET hits == {i \in AdditionsAt(p, n) :
                    \E h \in 1..(i - 1) : IsMalformedHeader(p[h])}
    IN  IF hits = {} THEN 0 ELSE CHOOSE i \in hits : \A j \in hits : i <= j

\* C13: a hunk header whose output-side start cannot be parsed does not end
\* the scan of either resolver: a target addition line in a later well-formed
\* hunk is still resolved, by both, to the position of that line.
C13_MalformedHeaderSkipped ==
    (pc = "positioned" /\ TargetAfterMalformed(patch, target_line) # 0) =>
        /\ diff_position \in
              PositionReadings(patch, TargetAfterMalformed(patch, target_line))
        /\ position_in_diff \in
              PositionReadings(patch, TargetAfterMalformed(patch, target_line))

\* hunk headers of p at or before line i
HeadersUpTo(p, i) == Cardinality({j \in 1..i : IsHeader(p[j])})

\* C16: on a patch of well-formed hunks the two resolvers answer None for
\* the same targets, and when both find the target get_position_in_diff
\* exceeds calculate_diff_position by the number of hunk headers at or
\* before the matched line.
C16_ResolversDifferByHeaders ==
    (pc = "positioned" /\ patch \in WellFormedPatches) =>
        /\ (position_in_diff = None) <=> (diff_position = None)
        /\ (position_in_diff # None /\ diff_position # None) =>
               position_in_diff =
                  diff_position
                     + HeadersUpTo(patch, BodyLineIndex(patch, diff_position))

-----------------------------------------------------------------------------
(* post_review.py: post_review_comments *)

\* one call to the hosting API made for comment k (0: the summary), with the
\* diff_position the loop held and the position handed over (None: no position)
ApiCall(api, k, dp, position, ok) ==
    [api |-> api, comment |-> k, diff_position |-> dp, position |-> position,
     ok |-> ok]

\* 'position': diff_position if diff_position else 1 (line 199)
ReviewPosition(dp) == IF dp # None /\ dp # 0 THEN dp ELSE 1

\* lines 160-189: the two inline attempts, made only with a position
InlineCalls(k, dp, m1, m2) ==
    IF dp = None THEN <<>>
    ELSE IF m1 THEN <<ApiCall("create_review_comment", k, dp, dp, TRUE)>>
    ELSE <<ApiCall("create_review_comment", k, dp, dp, FALSE),
           ApiCall("create_review_comment", k, dp, dp, m2)>>

\* the inline block ended without raising
InlinePosted(dp, m1, m2) == dp # None /\ (m1 \/ m2)

\* FallbackCalls with a slip: the issue comment is posted after the review
\* API succeeded, too
FallbackCallsAlwaysIssue(k, dp, rv, ic) ==
    <<ApiCall("create_review", k, dp, ReviewPosition(dp), rv),
      ApiCall("create_issue_comment", k, dp, None, ic)>>

\* lines 191-216: after the inline block raised, the review API and then the
\* general issue comment
FallbackCalls(k, dp, rv, ic) ==
    IF rv THEN <<ApiCall("create_review", k, dp, ReviewPosition(dp), TRUE)>>
    ELSE <<ApiCall("create_review", k, dp, ReviewPosition(dp), FALSE),
           ApiCall("create_issue_comment", k, dp, None, ic)>>

\* every call made for comment k, given the outcome of each attempt
CommentCalls(k, dp, m1, m2, rv, ic) ==
    IF InlinePosted(dp, m1, m2) THEN InlineCalls(k, dp, m1, m2)
    ELSE InlineCalls(k, dp, m1, m2) \o FallbackCalls(k, dp, rv, ic)

\* whether some strategy posted the comment (else the outer except counts it)
CommentPosted(dp, m1, m2, rv, ic) == InlinePosted(dp, m1, m2) \/ rv \/ ic

PostPatches ==
    { Hunk(1, 1, <<CtxLine, AddLine>>, <<>>),
      Hunk(1, 1, <<DelLine, CtxLine>>, <<>>),
      <<>> }

CommentInputs == [file : {"f", "g"}, line : {1, 2}]

CommentLists == UNION {[1..n -> CommentInputs] : n \in 0..MaxComments}

InitPost ==
    /\ pc = "post_start"
    /\ pr \in {[get_files_raises |-> FALSE,
                files |-> <<[filename |-> "f", patch |-> p]>>] : p \in PostPatches}
    /\ review_comments \in CommentLists
    /\ review_file \in BOOLEAN
    /\ cidx = 0
    /\ comments_posted = 0
    /\ errors = 0
    /\ api_log = <<>>
    /\ post_result = FALSE
    /\ ResolverIdle /\ ChunkIdle /\ SearchIdle /\ EmbedIdle /\ FindIdle
    /\ MainIdle

\* lines 126-128: no generated_review.json, return False
PostNoReviewFile ==
    /\ pc = "post_start"
    /\ ~review_file
    /\ post_result' = FALSE
    /\ pc' = "post_done"
    /\ UNCHANGED <<pr, review_comments, review_file, cidx, comments_posted, errors,
                   api_log, exceptPost>>

\* lines 130-144: the review is loaded and the loop starts
PostLoadReview ==
    /\ pc = "post_start"
    /\ review_file
    /\ cidx' = 1
    /\ pc' = "post_loop"
    /\ UNCHANGED <<pr, review_comments, review_file, comments_posted, errors,
                   api_log, post_result, exceptPost>>

\* lines 148-221: one iteration of the loop over the comments; every call to
\* the hosting API may succeed or raise
PostComment ==
    /\ pc = "post_loop"
    /\ cidx <= Len(review_comments)
    /\ \E raises, m1, m2, rv, ic \in BOOLEAN :
         LET c == review_comments[cidx]
             dp == calculate_diff_position(
                       [pr EXCEPT !.get_files_raises = raises], c.file, c.line)
         IN  /\ api_log' = api_log \o CommentCalls(cidx, dp, m1, m2, rv, ic)
             /\ IF CommentPosted(dp, m1, m2, rv, ic)
                THEN comments_posted' = comments_posted + 1 /\ errors' = errors
                ELSE errors' = errors + 1 /\ comments_posted' = comments_posted
    /\ cidx' = cidx + 1
    /\ UNCHANGED <<pc, pr, review_comments, review_file, post_result, exceptPost>>

\* lines 223-228: the summary comment, and the returned value
PostFinish ==
    /\ pc = "post_loop"
    /\ cidx > Len(review_comments)
    /\ \E ok \in BOOLEAN :
         api_log' = IF comments_posted > 1
                    THEN Append(api_log, ApiCall("create_issue_comment", 0, None, None, ok))
                    ELSE api_log
    /\ post_result' = (comments_posted > 0)
    /\ pc' = "post_done"
    /\ UNCHANGED <<pr, review_comments, review_file, cidx, comments_posted, errors,
                   exceptPost>>

NextPost == PostNoReviewFile \/ PostLoadReview \/ PostComment \/ PostFinish

SpecPost == InitPost /\ [][NextPost]_vars

\* C2: a comment for which calculate_diff_position returned None is never
\* sent to the hosting API with a position (create_review_comment or
\* create_review); it is delivered only by create_issue_comment.
C2_NoPositionWhenNotFound ==
    \A e \in 1..Len(api_log) :
        (api_log[e].comment # 0 /\ api_log[e].diff_position = None)
            => /\ api_log[e].api = "create_issue_comment"
               /\ api_log[e].position = None

\* the calls made for comment k, in order
CallsOf(k) == SelectSeq(api_log, LAMBDA e : e.comment = k)

\* the strategies in their order: inline (method 1), inline (method 2),
\* review API, issue comment
StrategyOrder ==
    <<"create_review_comment", "create_review_comment", "create_review",
      "create_issue_comment">>

\* comment k was posted by some strategy
PostedComment(k) == \E e \in 1..Len(CallsOf(k)) : CallsOf(k)[e].ok

\* C19: each comment is accounted for once.  Its calls follow the order
\* inline 1, inline 2, review API, issue comment, starting at the review API
\* when there is no position; a call is made only after every earlier call
\* for the comment raised, so at most one succeeds; a comment none of whose
\* calls succeeded went through all of them; comments_posted and errors
\* count the posted and the failed comments, and add up to the number of
\* comments when the loop has ended; the summary is posted only when
\* comments_posted > 1.
C19_EachCommentAccountedOnce ==
    pc \in {"post_loop", "post_done"} =>
        /\ \A k \in 1..(cidx - 1) :
              LET calls == CallsOf(k)
                  first == IF calls[1].diff_position # None THEN 1 ELSE 3
              IN  /\ calls # <<>>
                  /\ first + Len(calls) - 1 <= Len(StrategyOrder)
                  /\ \A e \in 1..Len(calls) :
                        /\ calls[e].api = StrategyOrder[first + e - 1]
                        /\ e < Len(calls) => ~calls[e].ok
                  /\ ~calls[Len(calls)].ok
                        => calls[Len(calls)].api = "create_issue_comment"
        /\ \A e \in 1..Len(api_log) : api_log[e].comment < cidx
        /\ comments_posted = Cardinality({k \in 1..(cidx - 1) : PostedComment(k)})
        /\ errors = Cardinality({k \in 1..(cidx - 1) : ~PostedComment(k)})
        /\ (pc = "post_done" /\ review_file)
              => /\ comments_posted + errors = Len(review_comments)
                 /\ (CallsOf(0) # <<>>) <=> (comments_posted > 1)
                 /\ Len(CallsOf(0)) <= 1
        /\ pc = "post_loop" => CallsOf(0) = <<>>

\* C19 witness: of two comments one was posted by the issue comment after
\* both inline methods and the review API raised, the other by no strategy;
\* no summary was posted
C19_Witness ==
    /\ pc = "post_done"
    /\ Len(review_comments) = 2
    /\ comments_posted = 1
    /\ errors = 1
    /\ \E k \in 1..2 :
          /\ Len(CallsOf(k)) = 4
          /\ CallsOf(k)[4].ok
    /\ CallsOf(0) = <<>>

-----------------------------------------------------------------------------
(* generate_review.py: split_patch_into_chunks *)

\* number of trailing lines of the buffer inspected before a split (line 71)
TailWindow == 5

\* '\n'.join(lines)
RECURSIVE Join(_)
Join(lines) ==
    IF lines = <<>> THEN <<>>
    ELSE IF Len(lines) = 1 THEN lines[1]
    ELSE lines[1] \o <<"\n">> \o Join(Tail(lines))

\* text.split('\n')
RECURSIVE SplitLines(_)
SplitLines(text) ==
    LET nl == {i \in 1..Len(text) : text[i] = "\n"}
    IN  IF nl = {} THEN <<text>>
        ELSE LET i == CHOOSE n \in nl : \A m \in nl : n <= m
             IN  <<SubSeq(text, 1, i - 1)>> \o SplitLines(SubSeq(text, i + 1, Len(text)))

StartsPlus(line) == StartsWith(line, <<"+">>)
StartsMinus(line) == StartsWith(line, <<"-">>)

\* the dictionary appended to chunks (lines 56-62, 73-79, 84-90)
MakeChunk(filename, hunk_header, current_chunk) ==
    [filename |-> filename,
     hunk_header |-> hunk_header,
     code_chunk |-> Join(current_chunk),
     added_lines |-> SelectSeq(current_chunk, StartsPlus),
     removed_lines |-> SelectSeq(current_chunk, StartsMinus)]

\* TailHasChange with a slip: only the last line of the buffer is inspected
TailHasChangeLastOnly(current_chunk) ==
    /\ current_chunk # <<>>
    /\ (StartsPlus(current_chunk[Len(current_chunk)])
           \/ StartsMinus(current_chunk[Len(current_chunk)]))

\* any(l.startswith(('+', '-')) for l in current_chunk[-5:])
TailHasChange(current_chunk) ==
    \E i \in 1..Len(current_chunk) :
        /\ i > Len(current_chunk) - TailWindow
        /\ (StartsPlus(current_chunk[i]) \/ StartsMinus(current_chunk[i]))

\* chunks = [], current_chunk = [], hunk_header = None (the empty text here)
ChunkStart == [chunks |-> <<>>, current_chunk |-> <<>>, hunk_header |-> <<>>]

\* ChunkStep with a slip: the line that triggers a split is left out of the
\* flushed chunk and of the next buffer
ChunkStepDropsAtSplit(st, line, filename, maxl) ==
    IF StartsWith(line, HunkMarker)
    THEN [chunks |-> IF st.current_chunk # <<>> /\ st.hunk_header # <<>>
                     THEN Append(st.chunks,
                                 MakeChunk(filename, st.hunk_header, st.current_chunk))
                     ELSE st.chunks,
          current_chunk |-> <<>>,
          hunk_header |-> line]
    ELSE LET buf == Append(st.current_chunk, line)
         IN  IF Len(buf) >= maxl /\ TailHasChange(buf)
             THEN [chunks |-> IF st.hunk_header # <<>> /\ st.current_chunk # <<>>
                              THEN Append(st.chunks,
                                          MakeChunk(filename, st.hunk_header,
                                                    st.current_chunk))
                              ELSE st.chunks,
                   current_chunk |-> <<>>,
                   hunk_header |-> st.hunk_header]
             ELSE [st EXCEPT !.current_chunk = buf]

\* one iteration of "for line in lines" (lines 52-80)
ChunkStep(st, line, filename, maxl) ==
    IF StartsWith(line, HunkMarker)
    THEN [chunks |-> IF st.current_chunk # <<>> /\ st.hunk_header # <<>>
                     THEN Append(st.chunks,
                                 MakeChunk(filename, st.hunk_header, st.current_chunk))
                     ELSE st.chunks,
          current_chunk |-> <<>>,
          hunk_header |-> line]
    ELSE LET buf == Append(st.current_chunk, line)
         IN  IF Len(buf) >= maxl /\ TailHasChange(buf)
             THEN [chunks |-> IF st.hunk_header # <<>>
                              THEN Append(st.chunks,
                                          MakeChunk(filename, st.hunk_header, buf))
                              ELSE st.chunks,
                   current_chunk |-> <<>>,
                   hunk_header |-> st.hunk_header]
             ELSE [st EXCEPT !.current_chunk = buf]

RECURSIVE ChunkScan(_, _, _, _, _)
ChunkScan(lines, i, st, filename, maxl) ==
    IF i > Len(lines) THEN st
    ELSE ChunkScan(lines, i + 1, ChunkStep(st, lines[i], filename, maxl),
                   filename, maxl)

\* split_patch_into_chunks(patch, filename, max_lines): the loop and the
\* final chunk (lines 82-92)
split_patch_into_chunks(lines, filename, maxl) ==
    LET st == ChunkScan(lines, 1, ChunkStart, filename, maxl)
    IN  IF st.current_chunk # <<>> /\ st.hunk_header # <<>>
        THEN Append(st.chunks, MakeChunk(filename, st.hunk_header, st.current_chunk))
        ELSE st.chunks

\* extract_line_number_from_hunk(hunk_header) (lines 257-278): the fallback
\* after a failed search uses the same pattern and so ends in "return 1"
extract_line_number_from_hunk(hunk_header) ==
    IF RePlusDigits(hunk_header) # None THEN RePlusDigits(hunk_header) ELSE 1

\* lines 291-297: the loop over the lines of the chunk
RECURSIVE FirstAddedLine(_, _, _, _)
FirstAddedLine(lines, i, hunk_line, line_offset) ==
    IF i > Len(lines) THEN hunk_line
    ELSE IF StartsWith(lines[i], <<"+">>) /\ ~StartsWith(lines[i], <<"+", "+", "+">>)
    THEN hunk_line + line_offset
    ELSE IF StartsWith(lines[i], <<" ">>) \/ StartsWith(lines[i], <<"+">>)
    THEN FirstAddedLine(lines, i + 1, hunk_line, line_offset + 1)
    ELSE FirstAddedLine(lines, i + 1, hunk_line, line_offset)

\* extract_line_number_from_chunk(chunk) (lines 281-303)
extract_line_number_from_chunk(chunk) ==
    FirstAddedLine(SplitLines(chunk.code_chunk), 1,
                   extract_line_number_from_hunk(chunk.hunk_header), 0)

\* n context lines
CtxRun(n) == [i \in 1..n |-> CtxLine]

\* hunk bodies with a run of context lines between changes
ChunkBodies ==
    {pre \o CtxRun(k) \o post :
        pre \in {<<>>, <<AddLine>>, <<DelLine, AddLine>>},
        k \in 0..MaxCtxRun,
        post \in {<<>>, <<AddLine>>, <<DelLine>>}}

ChunkHunk(start, body) ==
    <<FormatHeader(start, CountOf(body, {CtxLine, DelLine}),
                   start, CountOf(body, {CtxLine, AddLine}), <<>>)>> \o body

\* one hunk; two hunks
WellFormedChunkPatches ==
    {ChunkHunk(1, b) : b \in ChunkBodies}
    \cup {ChunkHunk(1, b1) \o ChunkHunk(20, b2) :
            b1 \in ChunkBodies,
            b2 \in {<<>>, <<AddLine>>, <<CtxLine, DelLine, AddLine>>, CtxRun(2)}}

\* and text before the first header; a trailing empty line
ChunkPatches ==
    WellFormedChunkPatches
    \cup {<<CtxLine, AddLine>> \o ChunkHunk(1, b) \o <<EmptyLine>> :
            b \in {<<AddLine>>, <<AddLine, CtxLine, CtxLine>>}}
    \cup OddPatches

InitChunk ==
    /\ pc = "chunk"
    /\ patch \in ChunkPatches
    /\ max_lines \in 1..MaxMaxLines
    /\ chunks = <<>>
    /\ chunk_lines = <<>>
    /\ chunk_positions = <<>>
    /\ target_line = 0
    /\ diff_position = None
    /\ position_in_diff = None
    /\ PostIdle /\ SearchIdle /\ EmbedIdle /\ FindIdle
    /\ MainIdle

Chunk ==
    /\ pc = "chunk"
    /\ chunks' = split_patch_into_chunks(patch, "f", max_lines)
    /\ pc' = "chunked"
    /\ UNCHANGED <<max_lines, chunk_lines, chunk_positions, patch, target_line,
                   diff_position, position_in_diff, exceptChunk>>

\* what becomes of each chunk downstream: its comment's line is
\* extract_line_number_from_chunk(chunk) (generate_review.py line 232) and the
\* posting script resolves that line with calculate_diff_position
\* (post_review.py line 158)
LocateChunks ==
    /\ pc = "chunked"
    /\ chunk_lines' =
          [k \in 1..Len(chunks) |-> extract_line_number_from_chunk(chunks[k])]
    /\ chunk_positions' =
          [k \in 1..Len(chunks) |->
              calculate_diff_position(SinglePr(patch), "f",
                                      extract_line_number_from_chunk(chunks[k]))]
    /\ pc' = "located"
    /\ UNCHANGED <<max_lines, chunks, patch, target_line, diff_position,
                   position_in_diff, exceptChunk>>

NextChunk == Chunk \/ LocateChunks

SpecChunk == InitChunk /\ [][NextChunk]_vars

\* the body lines of p, each paired with the header of its hunk, in order
RECURSIVE HunkPairs(_, _)
HunkPairs(p, i) ==
    IF i > Len(p) THEN <<>>
    ELSE IF IsHeader(p[i]) \/ HeaderOf(p, i) = 0 THEN HunkPairs(p, i + 1)
    ELSE <<<<p[HeaderOf(p, i)], p[i]>>>> \o HunkPairs(p, i + 1)

\* the lines of the chunks, each paired with its chunk's header, in
\* emission order
RECURSIVE ChunkPairs(_)
ChunkPairs(cs) ==
    IF cs = <<>> THEN <<>>
    ELSE LET ls == SplitLines(cs[1].code_chunk)
         IN  [i \in 1..Len(ls) |-> <<cs[1].hunk_header, ls[i]>>]
                \o ChunkPairs(Tail(cs))

\* C4: for every hunk, the lines of the chunks made from it, concatenated in
\* emission order, are exactly the hunk's body lines in their order: nothing
\* is lost or duplicated at a split, at a hunk boundary or at end of input.
C4_ChunkCoverage ==
    pc = "chunked" => ChunkPairs(chunks) = HunkPairs(patch, 1)

\* C4 witness: a patch of two hunks whose first hunk was split, so that two
\* consecutive chunks share one header and a later chunk has another
C4_Witness ==
    /\ pc = "chunked"
    /\ Len(chunks) >= 3
    /\ chunks[1].hunk_header = chunks[2].hunk_header
    /\ chunks[Len(chunks)].hunk_header # chunks[1].hunk_header

\* the lines of a chunk
ChunkLinesOf(c) == SplitLines(c.code_chunk)

\* indexes in p of the body lines that stand under a hunk header, in order
BodyIndexes(p) ==
    SelectSeq([i \in 1..Len(p) |-> i],
              LAMBDA i : ~IsHeader(p[i]) /\ HeaderOf(p, i) # 0)

\* number of lines in the first k chunks of cs
RECURSIVE LinesBefore(_, _)
LinesBefore(cs, k) ==
    IF k = 0 THEN 0 ELSE LinesBefore(cs, k - 1) + Len(ChunkLinesOf(cs[k]))

\* place within chunk c of its first addition line, or 0
FirstAdditionIn(c) ==
    LET adds == {a \in 1..Len(ChunkLinesOf(c)) : StartsPlus(ChunkLinesOf(c)[a])}
    IN  IF adds = {} THEN 0 ELSE CHOOSE a \in adds : \A b \in adds : a <= b

\* index in p of the first addition line of the k-th chunk of cs (the chunks
\* hold the body lines of p in order)
FirstAdditionIndex(p, cs, k) ==
    BodyIndexes(p)[LinesBefore(cs, k - 1) + FirstAdditionIn(cs[k])]

IsChange(line) == StartsPlus(line) \/ StartsMinus(line)

\* C14 as stated: every chunk holds at most max_lines lines.
C14_ChunkWithinMaxLines ==
    pc = "chunked" =>
        \A k \in 1..Len(chunks) : Len(ChunkLinesOf(chunks[k])) <= max_lines

\* C14, amended: a chunk is longer than max_lines only by lines gathered
\* while none of the last 5 lines of the buffer was an addition or a
\* deletion: for every length n from max_lines up to the chunk's length less
\* one, the lines n-4..n of the chunk are all unchanged lines.
C14_ChunkBoundedUpToContextRun ==
    pc = "chunked" =>
        \A k \in 1..Len(chunks) :
            LET ls == ChunkLinesOf(chunks[k])
            IN  \A n \in max_lines..(Len(ls) - 1) :
                    \A i \in 1..n : i > n - TailWindow => ~IsChange(ls[i])

\* C14 witness: with max_lines at least 5, a chunk grew past max_lines over
\* unchanged lines and was cut at the change that followed, and another chunk
\* of the same patch stayed within max_lines
C14_Witness ==
    /\ pc = "chunked"
    /\ max_lines >= TailWindow
    /\ \E k \in 1..Len(chunks) :
          /\ Len(ChunkLinesOf(chunks[k])) > max_lines
          /\ IsChange(ChunkLinesOf(chunks[k])[Len(ChunkLinesOf(chunks[k]))])
    /\ \E k \in 1..Len(chunks) : Len(ChunkLinesOf(chunks[k])) <= max_lines

\* C17: for every chunk that holds an addition line, the chunks that share
\* a header after a split included, extract_line_number_from_chunk is the
\* output-side number of the chunk's first addition line, and
\* calculate_diff_position resolves that number to that very line, never to
\* None.
C17_ChunkLineRoundTrip ==
    (pc = "located" /\ patch \in WellFormedChunkPatches) =>
        \A k \in 1..Len(chunks) :
            FirstAdditionIn(chunks[k]) # 0 =>
                /\ chunk_lines[k] =
                      OutputLine(patch, FirstAdditionIndex(patch, chunks, k))
                /\ chunk_positions[k] # None
                /\ BodyLineIndex(patch, chunk_positions[k])
                      = FirstAdditionIndex(patch, chunks, k)

-----------------------------------------------------------------------------
(* claude_embeddings.py: calculate_similarity, find_similar_reviews *)

(* A similarity dot / (norm1 * norm2) is kept exactly, as the pair of the dot
   product and the product of the squared norms: [dot, nsq] stands for
   dot / sqrt(nsq).  The vectors of the model have integer norms (3-4-5
   triangles), for which the floating-point value the code computes is the
   correctly rounded quotient of two integers, so equal and ordered exact
   values are equal and ordered floats. *)

RECURSIVE Dot(_, _)
Dot(v, w) == IF v = <<>> THEN 0 ELSE v[1] * w[1] + Dot(Tail(v), Tail(w))

\* the similarity_score of a stored record: None
NoScore == [dot |-> 0, nsq |-> 0]

\* the number p / q with q > 0, e.g. the literal 0.3 as Ratio(3, 10)
Ratio(p, q) == [dot |-> p, nsq |-> q * q]

\* calculate_similarity(embedding1, embedding2) (lines 168-180)
calculate_similarity(embedding1, embedding2) ==
    IF Dot(embedding1, embedding1) = 0 \/ Dot(embedding2, embedding2) = 0
    THEN Ratio(0, 1)
    ELSE [dot |-> Dot(embedding1, embedding2),
          nsq |-> Dot(embedding1, embedding1) * Dot(embedding2, embedding2)]

\* a >= b for two similarities
SimGeq(a, b) ==
    IF a.dot >= 0 /\ b.dot < 0 THEN TRUE
    ELSE IF a.dot < 0 /\ b.dot >= 0 THEN FALSE
    ELSE IF a.dot >= 0 THEN a.dot * a.dot * b.nsq >= b.dot * b.dot * a.nsq
    ELSE a.dot * a.dot * b.nsq <= b.dot * b.dot * a.nsq

\* lines 192-197: the copies of the records at or above the threshold, each
\* with its score, in the order of the list
RECURSIVE ScoredCopies(_, _, _)
ScoredCopies(query, reviews, minsim) ==
    IF reviews = <<>> THEN <<>>
    ELSE LET similarity == calculate_similarity(query, reviews[1].embedding_vector)
             rest == ScoredCopies(query, Tail(reviews), minsim)
         IN  IF SimGeq(similarity, minsim)
             THEN <<[reviews[1] EXCEPT !.similarity_score = similarity]>> \o rest
             ELSE rest

\* InsertByScore with a slip: an equal score goes before the earlier ones
InsertByScoreUnstable(sorted, r) ==
    LET before == {i \in 1..Len(sorted) :
                      ~SimGeq(r.similarity_score, sorted[i].similarity_score)}
        n == Cardinality(before)
    IN  SubSeq(sorted, 1, n) \o <<r>> \o SubSeq(sorted, n + 1, Len(sorted))

\* InsertByScore with a slip: the list is sorted by score ascending
InsertByScoreAscending(sorted, r) ==
    LET before == {i \in 1..Len(sorted) :
                      SimGeq(r.similarity_score, sorted[i].similarity_score)}
        n == Cardinality(before)
    IN  SubSeq(sorted, 1, n) \o <<r>> \o SubSeq(sorted, n + 1, Len(sorted))

\* place of r in a list sorted by score, descending: after every element
\* whose score is at least r's (list.sort is stable, also with reverse=True)
InsertByScore(sorted, r) ==
    LET before == {i \in 1..Len(sorted) :
                      SimGeq(sorted[i].similarity_score, r.similarity_score)}
        n == Cardinality(before)
    IN  SubSeq(sorted, 1, n) \o <<r>> \o SubSeq(sorted, n + 1, Len(sorted))

\* similarities.sort(key=lambda x: x.similarity_score, reverse=True) (line 200)
RECURSIVE SortByScore(_)
SortByScore(items) ==
    IF items = <<>> THEN <<>>
    ELSE InsertByScore(SortByScore(SubSeq(items, 1, Len(items) - 1)),
                       items[Len(items)])

\* similarities[:top_k] for top_k >= 0
Truncate(items, k) == SubSeq(items, 1, IF k < Len(items) THEN k ELSE Len(items))

\* find_similar_reviews(query_embedding, review_embeddings, top_k, min_similarity)
find_similar_reviews(query, reviews, k, minsim) ==
    Truncate(SortByScore(ScoredCopies(query, reviews, minsim)), k)

\* embedding vectors: integer norms 5 and 10, the zero vector, opposite and
\* orthogonal directions
StoredVectors == {<<3, 4>>, <<6, 8>>, <<4, 3>>, <<0, 0>>, <<-3, -4>>, <<0, 5>>}
QueryVectors == {<<3, 4>>, <<0, 0>>, <<5, 0>>}

\* the stored record number k, inserted k-th
Record(k, v) == [id |-> k, embedding_vector |-> v, similarity_score |-> NoScore]

RecordLists ==
    UNION {{[k \in 1..n |-> Record(k, f[k])] : f \in [1..n -> StoredVectors]} :
              n \in 0..MaxRecords}

Thresholds == {Ratio(0, 1), Ratio(3, 10), Ratio(4, 5), Ratio(24, 25)}

InitSearch ==
    /\ pc = "search"
    /\ query_embedding \in QueryVectors
    /\ review_embeddings \in RecordLists
    /\ top_k \in 0..MaxRecords
    /\ min_similarity \in Thresholds
    /\ found_reviews = <<>>
    /\ stored_before = <<>>
    /\ search_history = <<>>
    /\ ResolverIdle /\ PostIdle /\ ChunkIdle /\ EmbedIdle /\ FindIdle
    /\ MainIdle

Search ==
    /\ pc = "search"
    /\ found_reviews' = find_similar_reviews(query_embedding, review_embeddings,
                                             top_k, min_similarity)
    /\ pc' = "searched"
    /\ UNCHANGED <<query_embedding, review_embeddings, top_k, min_similarity,
                   stored_before, search_history, exceptSearch>>

NextSearch == Search

SpecSearch == InitSearch /\ [][NextSearch]_vars

\* cosine similarity of the query to the stored record inserted k-th
CosineOf(k) == calculate_similarity(query_embedding, review_embeddings[k].embedding_vector)

\* a > b for two similarities
SimGreater(a, b) == ~SimGeq(b, a)

\* the stored records at or above the threshold
Clearing == {k \in 1..Len(review_embeddings) : SimGeq(CosineOf(k), min_similarity)}

ReturnedIds == {found_reviews[i].id : i \in 1..Len(found_reviews)}

\* C5: find_similar_reviews returns at most top_k candidates, each a stored
\* record with cosine similarity >= min_similarity, by similarity descending
\* and, for equal similarities, the earlier record first; no record left out
\* is more similar than one returned; when at most top_k records clear the
\* threshold the result is exactly those.
C5_TopKAboveThresholdOrdered ==
    pc = "searched" =>
        /\ Len(found_reviews) <= top_k
        /\ \A i \in 1..Len(found_reviews) :
              /\ found_reviews[i].id \in Clearing
              /\ found_reviews[i].similarity_score = CosineOf(found_reviews[i].id)
        /\ \A i, j \in 1..Len(found_reviews) :
              i < j =>
                 \/ SimGreater(CosineOf(found_reviews[i].id), CosineOf(found_reviews[j].id))
                 \/ /\ SimGeq(CosineOf(found_reviews[i].id), CosineOf(found_reviews[j].id))
                    /\ found_reviews[i].id < found_reviews[j].id
        /\ \A k \in 1..Len(review_embeddings) : \A i \in 1..Len(found_reviews) :
              k \notin ReturnedIds
                 => ~SimGreater(CosineOf(k), CosineOf(found_reviews[i].id))
        /\ Cardinality(Clearing) <= top_k => ReturnedIds = Clearing
        /\ Cardinality(ReturnedIds) = Len(found_reviews)

\* C5 witness: more records clear the threshold than top_k allows, the two
\* returned first tie, and the record cut off ties with them
C5_Witness ==
    /\ pc = "searched"
    /\ Cardinality(Clearing) > top_k
    /\ Len(found_reviews) >= 2
    /\ SimGeq(found_reviews[2].similarity_score, found_reviews[1].similarity_score)
    /\ \E k \in Clearing \ ReturnedIds :
          SimGeq(CosineOf(k), found_reviews[1].similarity_score)

-----------------------------------------------------------------------------
(* claude_embeddings.py: find_similar_reviews called again and again over
   the same stored records *)

\* ReviewEmbedding(**asdict(review)) (line 194): a new object that carries
\* the field values of review
ReviewCopy(review) ==
    [id |-> review.id,
     embedding_vector |-> review.embedding_vector,
     similarity_score |-> review.similarity_score]

\* the list handed over and the empty list similarities (line 191)
SearchLoopStart(reviews) == [reviews |-> reviews, similarities |-> <<>>]

\* SearchLoopStep with a slip: the score is set on the stored record itself,
\* which is then what the result list holds
SearchLoopStepAliased(st, i, query, minsim) ==
    LET review == st.reviews[i]
        similarity == calculate_similarity(query, review.embedding_vector)
    IN  IF SimGeq(similarity, minsim)
        THEN [reviews |-> [st.reviews EXCEPT ![i].similarity_score = similarity],
              similarities |-> Append(st.similarities,
                                      [review EXCEPT !.similarity_score = similarity])]
        ELSE st

\* one iteration of "for review in review_embeddings" (lines 192-197) on the
\* i-th stored record: the score is set on the copy, the stored record stays
SearchLoopStep(st, i, query, minsim) ==
    LET review == st.reviews[i]
        similarity == calculate_similarity(query, review.embedding_vector)
    IN  IF SimGeq(similarity, minsim)
        THEN [reviews |-> st.reviews,
              similarities |-> Append(st.similarities,
                                      [ReviewCopy(review) EXCEPT
                                          !.similarity_score = similarity])]
        ELSE st

RECURSIVE SearchLoop(_, _, _, _)
SearchLoop(st, i, query, minsim) ==
    IF i > Len(st.reviews) THEN st
    ELSE SearchLoop(SearchLoopStep(st, i, query, minsim), i + 1, query, minsim)

\* stored vectors of the repeated searches: cosines 1, 24/25 and 4/5 to the
\* query <<3, 4>>, and 3/5, 4/5 and 0 to the query <<5, 0>>
SearchVectors == {<<3, 4>>, <<4, 3>>, <<0, 5>>}

SearchRecordLists ==
    UNION {{[k \in 1..n |-> Record(k, f[k])] : f \in [1..n -> SearchVectors]} :
              n \in 0..MaxRecords}

InitSearches ==
    /\ pc = "searching"
    /\ query_embedding \in QueryVectors
    /\ review_embeddings \in SearchRecordLists
    /\ top_k \in 0..MaxRecords
    /\ min_similarity = Ratio(0, 1)
    /\ found_reviews = <<>>
    /\ stored_before = review_embeddings
    /\ search_history = <<>>
    /\ ResolverIdle /\ PostIdle /\ ChunkIdle /\ EmbedIdle /\ FindIdle
    /\ MainIdle

\* one more call find_similar_reviews(query_embedding, review_embeddings,
\* top_k, t) over the stored list, with a threshold of the caller's choice
SearchAgain ==
    /\ pc = "searching"
    /\ Len(search_history) < MaxSearches
    /\ \E t \in Thresholds :
         LET after == SearchLoop(SearchLoopStart(review_embeddings), 1,
                                 query_embedding, t)
             result == find_similar_reviews(query_embedding, review_embeddings,
                                            top_k, t)
         IN  /\ min_similarity' = t
             /\ review_embeddings' = after.reviews
             /\ found_reviews' = result
             /\ search_history' = Append(search_history,
                                         [min_similarity |-> t, found |-> result])
    /\ UNCHANGED <<pc, query_embedding, top_k, stored_before, exceptSearch>>

NextSearches == SearchAgain

SpecSearches == InitSearches /\ [][NextSearches]_vars

\* C11: for one query, one list of records and one top_k, every record
\* returned under the higher of two thresholds is also returned under the
\* lower one, truncation to top_k included.
C11_ThresholdMonotone ==
    \A i, j \in 1..Len(search_history) :
        SimGreater(search_history[j].min_similarity, search_history[i].min_similarity)
            => \A a \in 1..Len(search_history[j].found) :
                  \E b \in 1..Len(search_history[i].found) :
                     search_history[i].found[b] = search_history[j].found[a]

\* C11 witness: under the lower threshold more records cleared than top_k
\* allows and the result was cut; under the higher one fewer, but some,
\* records were returned
C11_Witness ==
    \E i, j \in 1..Len(search_history) :
        /\ SimGreater(search_history[j].min_similarity, search_history[i].min_similarity)
        /\ Len(search_history[i].found) = top_k
        /\ Cardinality({k \in 1..Len(stored_before) :
               SimGeq(calculate_similarity(query_embedding,
                                           stored_before[k].embedding_vector),
                      search_history[i].min_similarity)}) > top_k
        /\ search_history[j].found # <<>>
        /\ Len(search_history[j].found) < Len(search_history[i].found)

\* C18: searching leaves the stored records as they were: the list keeps its
\* length and order and every record its field values, similarity_score
\* (None) included; the scores sit on the returned copies only.
C18_StoredRecordsUnchanged ==
    pc = "searching" =>
        /\ Len(review_embeddings) = Len(stored_before)
        /\ \A k \in 1..Len(review_embeddings) :
              /\ review_embeddings[k] = stored_before[k]
              /\ review_embeddings[k].similarity_score = NoScore
        /\ \A i \in 1..Len(search_history) :
              \A a \in 1..Len(search_history[i].found) :
                 /\ search_history[i].found[a].similarity_score # NoScore
                 /\ \E k \in 1..Len(stored_before) :
                       stored_before[k] =
                          [search_history[i].found[a] EXCEPT !.similarity_score = NoScore]

\* C18 witness: two searches over three stored records have each returned
\* scored copies
C18_Witness ==
    /\ pc = "searching"
    /\ Len(stored_before) = 3
    /\ Len(search_history) = 2
    /\ search_history[1].found # <<>>
    /\ search_history[2].found # <<>>
    /\ review_embeddings = stored_before

-----------------------------------------------------------------------------
(* claude_embeddings.py: CohereEmbeddingClient *)

(* An embedding is kept as a sequence of integers.  The fallback vector's
   entry is the numerator of value - 0.5 over 2^32; the division by the norm
   (a positive factor common to all entries, applied when the norm is not 0)
   is left symbolic, so equal sequences stand for equal vectors. *)

\* default of the dimension parameter of _simulate_embedding
Dimension == 768
\* length of a SHA-256 digest, len(text_hash)
DigestSize == 32

\* the characters of the texts of the model; a character's code is its place
Alphabet == <<" ", "+", "-", "a", "b", "c", "\n", ":", "#", "C", "o", "d", "e",
              "n", "t", "x", "P", "R", "i", "r", "0", "1", "2", "3", "4", "5",
              "6", "7", "8", "9", "@", ",", "f", "u", "k", "w">>

CharCode(c) == CHOOSE k \in 1..Len(Alphabet) : Alphabet[k] = c

RECURSIVE WeightedSum(_, _, _)
WeightedSum(text, i, j) ==
    IF i > Len(text) THEN 0
    ELSE (CharCode(text[i]) * (i + 2 * j + 1) + WeightedSum(text, i + 1, j)) % 65536

\* hashlib.sha256(text.encode()).digest(): DigestSize bytes that are a fixed
\* function of the characters of the text (a mixing function stands for
\* SHA-256, whose only property used is that it is a function of the text)
Sha256Digest(text) ==
    [j \in 1..DigestSize |-> (WeightedSum(text, 1, j) * 31 + 17 * j + Len(text)) % 256]

\* byte k (from 0) of chunk[:4] for the window at i: text_hash[i + k], or the
\* padding byte 0 past the end of the digest (lines 72-73)
WindowByte(text_hash, i, k) ==
    IF i + k + 1 <= Len(text_hash) THEN text_hash[i + k + 1] ELSE 0

\* int.from_bytes(chunk[:4], 'big') / 2**32 - 0.5, as a numerator over 2**32
WindowValue(text_hash, i) ==
    (WindowByte(text_hash, i, 0) - 128) * 16777216
        + WindowByte(text_hash, i, 1) * 65536
        + WindowByte(text_hash, i, 2) * 256
        + WindowByte(text_hash, i, 3)

Min(a, b) == IF a <= b THEN a ELSE b

\* _simulate_embedding(text, dimension) (lines 61-86)
_simulate_embedding(text, dimension) ==
    LET text_hash == Sha256Digest(text)
        n == Min(Len(text_hash), dimension \div 8)
        embedding == [i \in 1..n |-> WindowValue(text_hash, i - 1)]
        padded == IF n < dimension
                  THEN embedding \o [i \in 1..(dimension - n) |-> 0]
                  ELSE embedding
    IN  SubSeq(padded, 1, dimension)

\* generate_embedding with a slip: the except branch lets the error go on
generate_embedding_reraises(text, response) ==
    IF response.ok
    THEN [raised |-> FALSE, embedding |-> response.embedding]
    ELSE [raised |-> TRUE, embedding |-> <<>>]

\* generate_embedding(text) (lines 39-53), given what self.cohere_client.embed
\* does: it answers response.embedding or raises
generate_embedding(text, response) ==
    IF response.ok
    THEN [raised |-> FALSE, embedding |-> response.embedding]
    ELSE [raised |-> FALSE, embedding |-> _simulate_embedding(text, Dimension)]

\* f"Code:\n{code_chunk}\n\nContext:\n{context}" (line 93)
CombinedText(code_chunk, context) ==
    <<"C", "o", "d", "e", ":", "\n">> \o code_chunk
        \o <<"\n", "\n", "C", "o", "n", "t", "e", "x", "t", ":", "\n">> \o context

\* generate_review_embedding(code_chunk, context) (lines 88-94)
generate_review_embedding(code_chunk, context) ==
    [text |-> CombinedText(code_chunk, context)]

\* what the hosted service may do with one request
HostedResponses ==
    { [ok |-> TRUE, embedding |-> <<3, 4>>],
      [ok |-> TRUE, embedding |-> <<4, 3>>],
      [ok |-> FALSE, embedding |-> <<>>] }

EmbedTexts == {AddLine, CtxLine \o <<"\n">> \o AddLine}
EmbedContexts == {<<>>, <<"P", "R", " ", "#", "1", " ", "i", "n", " ", "r">>}

InitEmbed ==
    /\ pc = "embed"
    /\ embed_log = <<>>
    /\ embed_requests = <<>>
    /\ ResolverIdle /\ PostIdle /\ ChunkIdle /\ SearchIdle /\ FindIdle
    /\ MainIdle

\* one call of generate_embedding(text)
GenerateEmbedding ==
    /\ pc = "embed"
    /\ Len(embed_log) < MaxEmbedCalls
    /\ \E text \in EmbedTexts, response \in HostedResponses :
         LET r == generate_embedding(text, response)
         IN  embed_log' = Append(embed_log,
                 [text |-> text, failed |-> ~response.ok, raised |-> r.raised,
                  embedding |-> r.embedding])
    /\ UNCHANGED <<pc, embed_requests, exceptEmbed>>

\* one call of generate_review_embedding(code_chunk, context)
GenerateReviewEmbedding ==
    /\ pc = "embed"
    /\ Len(embed_log) < MaxEmbedCalls
    /\ \E code \in EmbedTexts, context \in EmbedContexts, response \in HostedResponses :
         LET text == generate_review_embedding(code, context).text
             r == generate_embedding(text, response)
         IN  embed_log' = Append(embed_log,
                 [text |-> text, failed |-> ~response.ok, raised |-> r.raised,
                  embedding |-> r.embedding])
    /\ UNCHANGED <<pc, embed_requests, exceptEmbed>>

NextEmbed == GenerateEmbedding \/ GenerateReviewEmbedding

-----------------------------------------------------------------------------
(* The text embedded when a review is stored (claude_embeddings.py,
   create_review_embedding) and when a chunk is looked up
   (generate_review.py, find_similar_past_reviews) *)

Unknown == <<"u", "n", "k", "n", "o", "w", "n">>

\* the text an f-string makes of pr_info.get('pr_number', 'unknown'): str()
\* of the number, or the default when the key is missing
NumberText(pr_info) ==
    IF "pr_number" \in DOMAIN pr_info THEN Str(pr_info.pr_number) ELSE Unknown

\* the text an f-string makes of pr_info.get('repo', 'unknown')
RepoText(pr_info) ==
    IF "repo" \in DOMAIN pr_info THEN pr_info.repo ELSE Unknown

\* claude_embeddings.py line 119:
\* f"PR #{pr_info.get('pr_number', 'unknown')} in {pr_info.get('repo', 'unknown')}"
StorageContext(pr_info) ==
    <<"P", "R", " ", "#">> \o NumberText(pr_info) \o <<" ", "i", "n", " ">>
        \o RepoText(pr_info)

\* QueryContext with a slip: the number is looked up under the key 'number',
\* which the dictionary does not have
QueryContextOtherKey(pr_info) ==
    <<"P", "R", " ", "#">> \o Unknown \o <<" ", "i", "n", " ">>
        \o RepoText(pr_info)

\* generate_review.py line 114:
\* f"PR #{pr_info.get('pr_number', 'unknown')} in {pr_info.get('repo', 'unknown')}"
QueryContext(pr_info) ==
    <<"P", "R", " ", "#">> \o NumberText(pr_info) \o <<" ", "i", "n", " ">>
        \o RepoText(pr_info)

\* the pr_info dictionaries: every one has a title, some lack pr_number or repo
PrInfos ==
    {[title |-> "t"]}
    \cup {[title |-> "t", pr_number |-> n] : n \in {7, 12}}
    \cup {[title |-> "t", repo |-> <<"r">>]}
    \cup {[title |-> "t", pr_number |-> n, repo |-> <<"r">>] : n \in {7, 12}}

\* what the hosted service answers to one request for a review embedding
\* (a failing request takes the fallback of generate_embedding, see above)
TemplateResponses ==
    { [ok |-> TRUE, embedding |-> <<3, 4>>],
      [ok |-> TRUE, embedding |-> <<4, 3>>] }

InitTemplate ==
    /\ pc = "template"
    /\ embed_log = <<>>
    /\ embed_requests = <<>>
    /\ ResolverIdle /\ PostIdle /\ ChunkIdle /\ SearchIdle /\ FindIdle
    /\ MainIdle

\* the embedding request made for (code_chunk, context) by caller, and what
\* generate_review_embedding and generate_embedding make of it
RequestEmbedding(caller, code_chunk, pr_info, context, response) ==
    LET text == generate_review_embedding(code_chunk, context).text
        r == generate_embedding(text, response)
    IN  /\ embed_requests' = Append(embed_requests,
                [caller |-> caller, code_chunk |-> code_chunk, pr_info |-> pr_info,
                 text |-> text])
        /\ embed_log' = Append(embed_log,
                [text |-> text, failed |-> ~response.ok, raised |-> r.raised,
                 embedding |-> r.embedding])

\* create_review_embedding(code_chunk, review_comment, pr_info, ...)
\* (claude_embeddings.py lines 103-135): the embedding of the stored record
CreateReviewEmbedding ==
    /\ pc = "template"
    /\ Len(embed_requests) < MaxEmbedCalls
    /\ \E code \in EmbedTexts, pr_info \in PrInfos, response \in TemplateResponses :
         RequestEmbedding("create_review_embedding", code, pr_info,
                          StorageContext(pr_info), response)
    /\ UNCHANGED <<pc, exceptEmbed>>

\* find_similar_past_reviews, lines 112-115: the query embedding of a chunk
QueryReviewEmbedding ==
    /\ pc = "template"
    /\ Len(embed_requests) < MaxEmbedCalls
    /\ \E code \in EmbedTexts, pr_info \in PrInfos, response \in TemplateResponses :
         RequestEmbedding("find_similar_past_reviews", code, pr_info,
                          QueryContext(pr_info), response)
    /\ UNCHANGED <<pc, exceptEmbed>>

NextTemplate == CreateReviewEmbedding \/ QueryReviewEmbedding

SpecTemplate == InitTemplate /\ [][NextTemplate]_vars

\* the two dictionaries carry the same pr_number and the same repo
SameNumberAndRepo(a, b) ==
    /\ NumberText(a) = NumberText(b)
    /\ ("pr_number" \in DOMAIN a) <=> ("pr_number" \in DOMAIN b)
    /\ RepoText(a) = RepoText(b)
    /\ ("repo" \in DOMAIN a) <=> ("repo" \in DOMAIN b)

\* C15: for the same code text, pr_number and repo, the text embedded when
\* the review is stored is, character for character, the text embedded when
\* the chunk is looked up: "Code:", the code, "Context:" and
\* "PR #<number> in <repo>".
C15_SameTemplateAtStorageAndQuery ==
    \A i, j \in 1..Len(embed_requests) :
        (/\ embed_requests[i].caller = "create_review_embedding"
         /\ embed_requests[j].caller = "find_similar_past_reviews"
         /\ embed_requests[i].code_chunk = embed_requests[j].code_chunk
         /\ SameNumberAndRepo(embed_requests[i].pr_info, embed_requests[j].pr_info))
            => /\ embed_requests[i].text = embed_requests[j].text
               /\ embed_log[i].text = embed_log[j].text
               /\ embed_requests[j].text =
                     <<"C", "o", "d", "e", ":", "\n">>
                        \o embed_requests[j].code_chunk
                        \o <<"\n", "\n", "C", "o", "n", "t", "e", "x", "t", ":", "\n",
                              "P", "R", " ", "#">>
                        \o NumberText(embed_requests[j].pr_info)
                        \o <<" ", "i", "n", " ">>
                        \o RepoText(embed_requests[j].pr_info)

\* C15 witness: a review of PR 12 in r was stored and the same code of the
\* same PR was looked up afterwards, with one text
C15_Witness ==
    \E i, j \in 1..Len(embed_requests) :
        /\ i < j
        /\ embed_requests[i].caller = "create_review_embedding"
        /\ embed_requests[j].caller = "find_similar_past_reviews"
        /\ embed_requests[i].code_chunk = embed_requests[j].code_chunk
        /\ "pr_number" \in DOMAIN embed_requests[i].pr_info
        /\ embed_requests[i].pr_info.pr_number = 12
        /\ "repo" \in DOMAIN embed_requests[i].pr_info
        /\ embed_requests[i].pr_info = embed_requests[j].pr_info
        /\ embed_requests[i].text = embed_requests[j].text

SpecEmbed == InitEmbed /\ [][NextEmbed]_vars

\* C8: a call whose hosted request failed does not raise; it returns the
\* fallback vector of its text, so two failing calls with the same text
\* return identical vectors.
C8_FallbackOnFailure ==
    /\ \A i \in 1..Len(embed_log) :
          embed_log[i].failed =>
             /\ ~embed_log[i].raised
             /\ embed_log[i].embedding = _simulate_embedding(embed_log[i].text, Dimension)
             /\ Len(embed_log[i].embedding) = Dimension
    /\ \A i, j \in 1..Len(embed_log) :
          (embed_log[i].failed /\ embed_log[j].failed
              /\ embed_log[i].text = embed_log[j].text)
             => embed_log[i].embedding = embed_log[j].embedding

\* C8 witness: two failing calls with the same text have returned the same
\* vector, which is not the zero vector
C8_Witness ==
    \E i, j \in 1..Len(embed_log) :
        /\ i < j
        /\ embed_log[i].failed /\ embed_log[j].failed
        /\ embed_log[i].text = embed_log[j].text
        /\ embed_log[i].embedding = embed_log[j].embedding
        /\ \E k \in 1..Len(embed_log[i].embedding) : embed_log[i].embedding[k] # 0

-----------------------------------------------------------------------------
(* generate_review.py: find_similar_past_reviews *)

\* the memory sizes at which the threshold changes (lines 103, 105)
SmallMemory == 5
MediumMemory == 10
\* top_k of the search (line 120)
TopK == 3

\* AdaptiveThreshold with a slip: < where the code has <=
AdaptiveThresholdStrict(memory_size) ==
    IF memory_size < SmallMemory THEN Ratio(2, 10)
    ELSE IF memory_size < MediumMemory THEN Ratio(3, 10)
    ELSE Ratio(4, 10)

\* lines 102-108: min_similarity from the memory size
AdaptiveThreshold(memory_size) ==
    IF memory_size <= SmallMemory THEN Ratio(2, 10)
    ELSE IF memory_size <= MediumMemory THEN Ratio(3, 10)
    ELSE Ratio(4, 10)

\* memory_manager.index.ntotal
Ntotal(mem) == Len(mem.index)

\* the vector of the k-th record of a store of the model
VectorOf(k) ==
    IF k % 4 = 1 THEN <<4, 3>>
    ELSE IF k % 4 = 2 THEN <<0, 5>>
    ELSE IF k % 4 = 3 THEN <<3, 4>>
    ELSE <<-3, -4>>

\* a store holding n vectors and m records
Store(n, m) == [index |-> [k \in 1..n |-> VectorOf(k)],
                records |-> [k \in 1..m |-> Record(k, VectorOf(k))]]

\* FAISSMemoryManager.search_similar(query, top_k, min_similarity): the
\* (record, similarity) pairs of the records whose vector is at least
\* min_similarity close to the query, best first, at most top_k
search_similar(mem, query, k, minsim) ==
    find_similar_reviews(query,
        [i \in 1..Min(Len(mem.index), Len(mem.records)) |->
            [mem.records[i] EXCEPT !.embedding_vector = mem.index[i]]],
        k, minsim)

\* lines 125-139: the suggestion built for a chunk from its similar reviews
Suggestion(chunk, similar_reviews) ==
    [file |-> chunk.filename,
     hunk_header |-> chunk.hunk_header,
     code_chunk |-> chunk.code_chunk,
     similar_reviews |-> [i \in 1..Len(similar_reviews) |->
                             [similarity |-> similar_reviews[i].similarity_score,
                              review |-> similar_reviews[i].id]]]

\* SuggestionsAfter with a slip: a chunk without candidates is kept too
SuggestionsAfterAlways(suggestions, chunk, similar_reviews) ==
    Append(suggestions, Suggestion(chunk, similar_reviews))

\* lines 124-141: "if similar_reviews:" appends the chunk's suggestion
SuggestionsAfter(suggestions, chunk, similar_reviews) ==
    IF similar_reviews # <<>>
    THEN Append(suggestions, Suggestion(chunk, similar_reviews))
    ELSE suggestions

\* chunk lists handed to find_similar_past_reviews
FindChunkLists ==
    { <<>>,
      split_patch_into_chunks(Hunk(1, 1, <<CtxLine, AddLine>>, <<>>), "f", 2),
      split_patch_into_chunks(Hunk(1, 1, <<DelLine, AddLine, CtxLine, AddLine>>, <<>>)
                                 \o Hunk(9, 9, <<AddLine>>, <<>>), "f", 2) }

InitFind ==
    /\ pc = "find_start"
    /\ memory \in {Store(n, n) : n \in 0..MaxMemory}
    /\ code_chunks \in FindChunkLists
    /\ find_threshold = [dot |-> 0, nsq |-> 1]
    /\ fidx = 0
    /\ search_log = <<>>
    /\ review_suggestions = <<>>
    /\ ResolverIdle /\ PostIdle /\ ChunkIdle /\ SearchIdle /\ EmbedIdle
    /\ MainIdle

\* lines 98-110: the threshold is fixed before the loop
FindStart ==
    /\ pc = "find_start"
    /\ find_threshold' = AdaptiveThreshold(Ntotal(memory))
    /\ review_suggestions' = <<>>
    /\ search_log' = <<>>
    /\ fidx' = 1
    /\ pc' = "find_loop"
    /\ UNCHANGED <<memory, code_chunks, exceptFind>>

\* lines 112-141: one chunk; query is the vector the embedding client
\* returns for it (the hosted vector or the fallback one: it never raises)
FindChunk ==
    /\ pc = "find_loop"
    /\ fidx <= Len(code_chunks)
    /\ \E query \in QueryVectors :
         LET similar_reviews == search_similar(memory, query, TopK, find_threshold)
         IN  /\ search_log' = Append(search_log,
                    [chunk |-> fidx, top_k |-> TopK, min_similarity |-> find_threshold,
                     memory_size |-> Ntotal(memory),
                     index_size |-> Len(memory.index),
                     record_count |-> Len(memory.records),
                     candidates |-> Len(similar_reviews)])
             /\ review_suggestions' =
                    SuggestionsAfter(review_suggestions, code_chunks[fidx], similar_reviews)
    /\ fidx' = fidx + 1
    /\ UNCHANGED <<pc, memory, code_chunks, find_threshold, exceptFind>>

\* line 143: return review_suggestions
FindReturn ==
    /\ pc = "find_loop"
    /\ fidx > Len(code_chunks)
    /\ pc' = "find_done"
    /\ UNCHANGED <<findVars, exceptFind>>

NextFind == FindStart \/ FindChunk \/ FindReturn

SpecFind == InitFind /\ [][NextFind]_vars

\* C6: every search of a call uses top_k = 3 and one threshold fixed by the
\* memory size n: 0.2 when n <= 5, 0.3 when 6 <= n <= 10, 0.4 when n > 10.
C6_ThresholdFromMemorySize ==
    \A i \in 1..Len(search_log) :
        /\ search_log[i].top_k = 3
        /\ search_log[i].memory_size <= 5
              => search_log[i].min_similarity = Ratio(2, 10)
        /\ (6 <= search_log[i].memory_size /\ search_log[i].memory_size <= 10)
              => search_log[i].min_similarity = Ratio(3, 10)
        /\ search_log[i].memory_size > 10
              => search_log[i].min_similarity = Ratio(4, 10)
        /\ search_log[i].min_similarity = search_log[1].min_similarity

\* C6 witness: two chunks were searched against a memory of more than 10
\* records
C6_Witness ==
    /\ Len(search_log) >= 2
    /\ search_log[2].memory_size > 10
    /\ search_log[2].min_similarity = Ratio(4, 10)

\* the chunks searched so far that had at least one candidate, in chunk order
RECURSIVE ChunksWithCandidates(_)
ChunksWithCandidates(log) ==
    IF log = <<>> THEN <<>>
    ELSE ChunksWithCandidates(SubSeq(log, 1, Len(log) - 1))
            \o (IF log[Len(log)].candidates > 0 THEN <<log[Len(log)].chunk>> ELSE <<>>)

\* C7: the suggestions are, in order, those of exactly the chunks whose
\* search returned at least one candidate, one per such chunk: a subsequence
\* of the chunks in their original order.
C7_SuggestionIffCandidate ==
    pc \in {"find_loop", "find_done"} =>
        LET hit == ChunksWithCandidates(search_log)
        IN  /\ \A i \in 1..Len(search_log) : search_log[i].chunk = i
            /\ Len(review_suggestions) = Len(hit)
            /\ \A i \in 1..Len(hit) :
                  /\ review_suggestions[i].file = code_chunks[hit[i]].filename
                  /\ review_suggestions[i].hunk_header = code_chunks[hit[i]].hunk_header
                  /\ review_suggestions[i].code_chunk = code_chunks[hit[i]].code_chunk
                  /\ review_suggestions[i].similar_reviews # <<>>
            /\ pc = "find_done" => Len(search_log) = Len(code_chunks)

\* C7 witness: the call has returned; a chunk without candidates was dropped
\* between two chunks that got a suggestion
C7_Witness ==
    /\ pc = "find_done"
    /\ Len(search_log) >= 3
    /\ search_log[1].candidates > 0
    /\ search_log[2].candidates = 0
    /\ search_log[3].candidates > 0
    /\ Len(review_suggestions) = 2

-----------------------------------------------------------------------------
(* generate_review.py: main and its helpers *)

\* default of the max_lines parameter of split_patch_into_chunks (line 44)
DefaultMaxLines == 20

\* get_pr_changes (lines 34-39): the chunks of the modified and added files
RECURSIVE ChangesOf(_)
ChangesOf(files) ==
    IF files = <<>> THEN <<>>
    ELSE (IF ~PatchFalsy(files[1].patch) /\ files[1].status \in {"modified", "added"}
          THEN split_patch_into_chunks(files[1].patch, files[1].filename,
                                       DefaultMaxLines)
          ELSE <<>>)
         \o ChangesOf(Tail(files))

\* FAISSMemoryManager.load_from_files(index_path, metadata_path): both files
\* are read; CorruptStoreError when their counts disagree
load_from_files(d) ==
    IF d.index_size # d.metadata_size
    THEN [raised |-> TRUE, memory |-> [index |-> <<>>, records |-> <<>>]]
    ELSE [raised |-> FALSE, memory |-> Store(d.index_size, d.metadata_size)]

\* MainLoad with a slip: the error of load_from_files is swallowed and the
\* run goes on with what was read
MainLoadSwallowsError(d) ==
    IF ~d.index_exists \/ ~d.metadata_exists
    THEN [pc |-> "returned_no_memory_files", branch |-> "memory",
          memory |-> [index |-> <<>>, records |-> <<>>]]
    ELSE IF d.index_size = 0
    THEN [pc |-> "returned_empty_memory", branch |-> "memory",
          memory |-> Store(d.index_size, d.metadata_size)]
    ELSE [pc |-> "main_get_changes", branch |-> "pr",
          memory |-> Store(d.index_size, d.metadata_size)]

\* lines 311-331: where main stands after loading the memory, the branch the
\* working tree is left on, and the store; an exception of load_from_files is
\* not caught and ends main
MainLoad(d) ==
    IF ~d.index_exists \/ ~d.metadata_exists
    THEN [pc |-> "returned_no_memory_files", branch |-> "memory",
          memory |-> [index |-> <<>>, records |-> <<>>]]
    ELSE IF load_from_files(d).raised
    THEN [pc |-> "raised_corrupt_store", branch |-> "memory",
          memory |-> load_from_files(d).memory]
    ELSE IF Ntotal(load_from_files(d).memory) = 0
    THEN [pc |-> "returned_empty_memory", branch |-> "memory",
          memory |-> load_from_files(d).memory]
    ELSE [pc |-> "main_get_changes", branch |-> "pr",
          memory |-> load_from_files(d).memory]

\* lines 369-378: one guideline-only comment per chunk
FallbackComments(cs) ==
    [i \in 1..Len(cs) |->
        [file |-> cs[i].filename,
         line |-> extract_line_number_from_hunk(cs[i].hunk_header),
         similarity_info |-> <<>>]]

\* lines 228-244: the comment generated for a suggestion
SuggestionComment(sg) ==
    [file |-> sg.file,
     line |-> extract_line_number_from_chunk(sg),
     similarity_info |-> sg.similar_reviews]

\* lines 170-254: the comments of the suggestions whose completion call
\* answered with a review text, in the order of the suggestions
RECURSIVE GeneratedComments(_, _, _)
GeneratedComments(sgs, i, answered) ==
    IF i > Len(sgs) THEN <<>>
    ELSE (IF i \in answered THEN <<SuggestionComment(sgs[i])>> ELSE <<>>)
         \o GeneratedComments(sgs, i + 1, answered)

\* the review_data dictionary written to generated_review.json
ReviewData(comments, n_chunks, n_similar, memory_size) ==
    [written |-> TRUE, comments |-> comments,
     metadata |-> [total_chunks_analyzed |-> n_chunks,
                   chunks_with_similar_reviews |-> n_similar,
                   comments_generated |-> Len(comments),
                   memory_size |-> memory_size]]

\* lines 358-395: what the branch "if not review_suggestions" leaves in
\* generated_review.json
FallbackReview(rules, cs, memory_size) ==
    IF rules /\ FallbackComments(cs) # <<>>
    THEN ReviewData(FallbackComments(cs), Len(cs), 0, memory_size)
    ELSE NoReview

ChangedFileLists ==
    { <<>>,
      <<[filename |-> "f", status |-> "modified",
         patch |-> Hunk(1, 1, <<CtxLine, AddLine>>, <<>>)]>>,
      <<[filename |-> "e", status |-> "removed",
         patch |-> Hunk(1, 1, <<DelLine>>, <<>>)],
        [filename |-> "g", status |-> "added",
         patch |-> Hunk(1, 1, <<AddLine, AddLine>>, <<>>)
                      \o Hunk(9, 9, <<CtxLine, DelLine, AddLine>>, CtxTail)]>>,
      <<[filename |-> "b", status |-> "modified", patch |-> <<>>]>> }

DiskStates ==
    {d \in [index_exists : BOOLEAN, metadata_exists : BOOLEAN,
            index_size : 0..MaxMemory, metadata_size : 0..MaxMemory] :
        /\ d.index_size - d.metadata_size \in {-1, 0, 1}
        /\ ~d.index_exists => d.index_size = 0
        /\ ~d.metadata_exists => d.metadata_size = 0}

InitMain ==
    /\ pc = "main_start"
    /\ disk \in DiskStates
    /\ branch = "pr"
    /\ changed_files \in ChangedFileLists
    /\ rules_file \in BOOLEAN
    /\ generated_review = NoReview
    /\ FindIdle
    /\ ResolverIdle /\ PostIdle /\ ChunkIdle /\ SearchIdle /\ EmbedIdle

\* lines 311-331: checkout of the memory branch, the load, checkout back
MainLoadMemory ==
    /\ pc = "main_start"
    /\ pc' = MainLoad(disk).pc
    /\ branch' = MainLoad(disk).branch
    /\ memory' = MainLoad(disk).memory
    /\ UNCHANGED <<code_chunks, find_threshold, fidx, search_log, review_suggestions,
                   disk, changed_files, rules_file, generated_review, exceptMain>>

\* lines 333-355: get_pr_changes, which may raise, and the call of
\* find_similar_past_reviews
MainGetChanges ==
    /\ pc = "main_get_changes"
    /\ \E ok \in BOOLEAN :
         IF ~ok THEN pc' = "returned_changes_error" /\ code_chunks' = code_chunks
         ELSE /\ code_chunks' = ChangesOf(changed_files)
              /\ pc' = IF ChangesOf(changed_files) = <<>>
                       THEN "returned_no_chunks" ELSE "find_start"
    /\ UNCHANGED <<memory, find_threshold, fidx, search_log, review_suggestions,
                   mainVars, exceptMain>>

\* lines 358-395: no suggestion came back
MainFallback ==
    /\ pc = "find_done"
    /\ review_suggestions = <<>>
    /\ generated_review' = FallbackReview(rules_file, code_chunks, Ntotal(memory))
    /\ pc' = "returned_fallback"
    /\ UNCHANGED <<findVars, disk, branch, changed_files, rules_file, exceptMain>>

\* lines 397-425: comments are generated from the suggestions; without the
\* API key none is, and each completion call may yield no comment
MainGenerate ==
    /\ pc = "find_done"
    /\ review_suggestions # <<>>
    /\ \E key \in BOOLEAN, answered \in SUBSET (1..Len(review_suggestions)) :
         LET generated ==
                 IF key THEN GeneratedComments(review_suggestions, 1, answered)
                 ELSE <<>>
         IN  generated_review' =
                 IF generated # <<>>
                 THEN ReviewData(generated, Len(code_chunks),
                                 Len(review_suggestions), Ntotal(memory))
                 ELSE NoReview
    /\ pc' = "returned_generated"
    /\ UNCHANGED <<findVars, disk, branch, changed_files, rules_file, exceptMain>>

NextMain ==
    \/ MainLoadMemory
    \/ MainGetChanges
    \/ FindStart
    \/ FindChunk
    \/ FindReturn
    \/ MainFallback
    \/ MainGenerate

SpecMain == InitMain /\ [][NextMain]_vars

\* C9: when main had chunks and no suggestion came back, it does not end
\* silently: generated_review.json holds a guideline-only comment for every
\* chunk and its metadata records zero memory matches.
C9_FallbackNeverSilent ==
    pc = "returned_fallback" =>
        /\ code_chunks # <<>>
        /\ generated_review.written
        /\ Len(generated_review.comments) = Len(code_chunks)
        /\ generated_review.metadata.chunks_with_similar_reviews = 0

\* C10: when the vector index and the metadata table on disk differ in
\* size, loading fails with CorruptStoreError and no query is served: main
\* never searches a store whose index size differs from its record count.
C10_CorruptStoreServesNoQuery ==
    /\ (pc # "main_start" /\ disk.index_exists /\ disk.metadata_exists
           /\ disk.index_size # disk.metadata_size)
          => /\ pc = "raised_corrupt_store"
             /\ search_log = <<>>
             /\ review_suggestions = <<>>
    /\ pc \in {"find_start", "find_loop", "find_done"}
          => Len(memory.index) = Len(memory.records)
    /\ \A i \in 1..Len(search_log) :
          search_log[i].index_size = search_log[i].record_count

\* where main stands after a return statement
ReturnedPcs ==
    {"returned_no_memory_files", "returned_empty_memory", "returned_changes_error",
     "returned_no_chunks", "returned_fallback", "returned_generated"}

\* C20: whenever main has returned after "git checkout memory", the working
\* tree is back on the PR branch, also when the memory files are missing or
\* the memory is empty.
C20_BackOnPrBranchAtReturn ==
    pc \in ReturnedPcs => branch = "pr"

\* C10 witness: a metadata table of 10 records against an index of 9 vectors
\* has ended main with CorruptStoreError
C10_Witness ==
    /\ pc = "raised_corrupt_store"
    /\ disk.index_size = 9
    /\ disk.metadata_size = 10
    /\ search_log = <<>>

====
